---- MODULE Spec2Model ----
(***************************************************************************)
(* Model of the authentication backend in src/main.py: the password        *)
(* hasher (hash_password, verify_password), the /auth/signup and           *)
(* /auth/login handlers, and the two collections "user" and "session" of   *)
(* the document store they share.                                          *)
(*                                                                         *)
(* Strings that the code takes apart or puts together (passwords, salts,   *)
(* digests, the stored "<salt>:<hash>" field, str(ObjectId)) are sequences *)
(* of one-character strings; strings the code only copies and compares     *)
(* (emails, names, tokens, messages) are plain strings.                    *)
(*                                                                         *)
(* Each handler runs in a worker thread; every store call is one atomic    *)
(* step, and the steps of concurrent requests interleave.                  *)
(***************************************************************************)
EXTENDS Integers, Sequences, FiniteSets, TLC

(* ------------------------------ bounds -------------------------------- *)

\* requests the service accepts in one run
MaxRequests == 3
\* longest password and longest salt handed to the hasher on its own
MaxLen == 2

\* concurrent request handlers (worker threads)
Procs == {"r1", "r2"}
Emails == {"ada@example.com", "bob@example.com"}
Names == {"Ada"}
\* passwords submitted to the endpoints
Passwords == {<<"s">>, <<":", "w">>}
\* what secrets.token_hex can return (hex strings of one fixed length)
Salts == {<<"0", "a">>, <<"1", "b">>}
\* what secrets.token_urlsafe can return
Tokens == {"tok1", "tok2"}

\* characters of the strings handed to the hasher on its own
Chars == {"a", "s", ":"}

\* Python's None, where a string may stand: no string of characters equals it
None == <<"None">>

(* --------------------------- password hasher -------------------------- *)

\* hex character standing for one input character in the digest
HexCode(c) ==
    CASE c = "s" -> "5"
      [] c = "w" -> "7"
      [] c = ":" -> "c"
      [] OTHER   -> c

\* hashlib.sha256(m.encode()).hexdigest(): a hex string, never holding ":",
\* different for different m (collision-free on the strings of the model)
sha256_hexdigest(m) == <<"d">> \o [i \in 1..Len(m) |-> HexCode(m[i])]

hash_password_swapped(password, salt, entropy) ==
    LET s == IF salt = None THEN entropy ELSE salt
    IN  <<sha256_hexdigest(password \o s), s>>

\* hash_password(password, salt=None); entropy is what secrets.token_hex(16)
\* returns if it is called
hash_password(password, salt, entropy) ==
    LET s == IF salt = None THEN entropy ELSE salt
    IN  <<sha256_hexdigest(s \o password), s>>

verify_password_nosalt(password, hashed, salt) ==
    sha256_hexdigest(password) = hashed

verify_password_truthy(password, hashed, salt) ==
    sha256_hexdigest(salt \o password) # <<>>

verify_password(password, hashed, salt) ==
    sha256_hexdigest(salt \o password) = hashed

\* str.split(":"): the fields between the colons, in order
RECURSIVE split(_)
split(s) ==
    IF \A i \in 1..Len(s) : s[i] # ":"
    THEN <<s>>
    ELSE LET i == CHOOSE k \in 1..Len(s) :
                      s[k] = ":" /\ \A j \in 1..(k - 1) : s[j] # ":"
         IN  <<SubSeq(s, 1, i - 1)>> \o split(SubSeq(s, i + 1, Len(s)))

unpacks_lenient(stored) == Len(split(stored)) >= 2

\* "salt, stored_hash = ....split(':')" unpacks only a list of exactly two
unpacks(stored) == Len(split(stored)) = 2

credential_nosep(salt, hashed) == salt \o hashed

\* f"{salt}:{hashed}"
credential(salt, hashed) == salt \o <<":">> \o hashed

(* ------------------------------ identities ---------------------------- *)

HexDigits == <<"1", "2", "3", "4", "5", "6", "7", "8", "9">>

\* str(ObjectId): the hex text of the identity
str(oid) == <<"0", "x", HexDigits[oid]>>

(* ------------------------------- state -------------------------------- *)

VARIABLES
    dbAvail,    \* the store handle imported from database: FALSE when db is None
    users,      \* the "user" collection, in insertion order
    sessions,   \* the "session" collection, in insertion order
    pc,         \* per handler: where its request stands
    req,        \* per handler: the request payload
    found,      \* per handler: the result of find_one (existing / user): <<>> for None
    user_id,    \* per handler: inserted_id of signup's insert (0 before it)
    resp,       \* per handler: the HTTP response once the request is done
    exc,        \* per handler: the exception that ended the request, or "none"
    returned,   \* the signups that returned 200: their email, password and user id
    origin,     \* per user document, in order: the password its stored field was
                \* made from by signup (None for a document signup did not write)
    accepted,   \* how many requests have been accepted so far
    hpass,      \* hasher on its own: the password argument
    hsalt,      \* hasher on its own: the salt argument (None when not supplied)
    hout,       \* hasher on its own: what hash_password returned (<<>> before the call)
    hok         \* hasher on its own: <<what verify_password returned>> (<<>> before)

vars == <<dbAvail, users, sessions, pc, req, found, user_id, resp, exc, returned,
          origin, accepted, hpass, hsalt, hout, hok>>

storeVars == <<dbAvail, users, sessions>>
hashVars == <<hpass, hsalt, hout, hok>>

\* stored password fields that a signup of this program never writes
LegacyHashes == {<<"0", "a">>, <<"0", ":", "a", ":", "b">>}

\* a document of the "user" collection (schemas.User plus the store's _id)
UserDoc(oid, name, email, password_hash, field_of_study) ==
    [_id |-> oid, name |-> name, email |-> email, password_hash |-> password_hash,
     field_of_study |-> field_of_study, interests |-> <<>>, is_active |-> TRUE]

SessionDoc_literal(uid, token) == [user_id |-> uid, token |-> "token"]

\* a document of the "session" collection (schemas.Session)
SessionDoc(uid, token) == [user_id |-> uid, token |-> token]

NoReq == [kind |-> "none", name |-> "", email |-> "", password |-> <<>>,
          field_of_study |-> None]
NoUser == [id |-> <<>>, name |-> "", email |-> ""]
NoResp == [status |-> 0, detail |-> "", message |-> "", token |-> "", user |-> NoUser]

\* raise HTTPException(status_code, detail)
HTTPException(status_code, detail) ==
    [status |-> status_code, detail |-> detail, message |-> "", token |-> "",
     user |-> NoUser]

\* the 200 body of both endpoints: message, token and the user projection
Success(message, token, oid, name, email) ==
    [status |-> 200, detail |-> "", message |-> message, token |-> token,
     user |-> [id |-> str(oid), name |-> name, email |-> email]]

\* an exception no handler catches: the framework answers 500
ServerError == HTTPException(500, "Internal Server Error")

(* ------------------------------- the store ---------------------------- *)

\* db["user"].find_one({"email": email}): <<>> for None, else the first match
find_one(email) ==
    IF \E i \in 1..Len(users) : users[i].email = email
    THEN <<users[CHOOSE i \in 1..Len(users) :
                    /\ users[i].email = email
                    /\ \A j \in 1..(i - 1) : users[j].email # email]>>
    ELSE <<>>

DuplicateEmail_never(email) == FALSE

\* the store's uniqueness constraint on email: insert refuses a second document
DuplicateEmail(email) == \E i \in 1..Len(users) : users[i].email = email

\* the identity the store assigns to the next inserted user document
NextId == Len(users) + 1

Init ==
    /\ dbAvail \in BOOLEAN
    /\ users \in {<<>>} \cup
          {<<UserDoc(1, "Bob", "bob@example.com", h, None)>> : h \in LegacyHashes}
    /\ origin = [i \in 1..Len(users) |-> None]
    /\ sessions = <<>>
    /\ pc = [p \in Procs |-> "idle"]
    /\ req = [p \in Procs |-> NoReq]
    /\ found = [p \in Procs |-> <<>>]
    /\ user_id = [p \in Procs |-> 0]
    /\ resp = [p \in Procs |-> NoResp]
    /\ exc = [p \in Procs |-> "none"]
    /\ returned = {}
    /\ accepted = 0
    /\ hpass = <<>>
    /\ hsalt = None
    /\ hout = <<>>
    /\ hok = <<>>

(* ------------------------------ requests ------------------------------ *)

\* the request ends: its response is fixed and nothing more runs
Finish(p, response, exception) ==
    /\ pc' = [pc EXCEPT ![p] = "done"]
    /\ resp' = [resp EXCEPT ![p] = response]
    /\ exc' = [exc EXCEPT ![p] = exception]

\* POST /auth/signup arrives with a SignupRequest body
SignupRequest(p) ==
    /\ pc[p] = "idle"
    /\ accepted < MaxRequests
    /\ accepted' = accepted + 1
    /\ \E n \in Names, e \in Emails, pw \in Passwords :
          req' = [req EXCEPT ![p] = [kind |-> "signup", name |-> n, email |-> e,
                                     password |-> pw, field_of_study |-> None]]
    /\ pc' = [pc EXCEPT ![p] = "signup_lookup"]
    /\ UNCHANGED <<found, user_id, resp, exc, returned, origin>>
    /\ UNCHANGED <<storeVars, hashVars>>

\* POST /auth/login arrives with a LoginRequest body
LoginRequest(p) ==
    /\ pc[p] = "idle"
    /\ accepted < MaxRequests
    /\ accepted' = accepted + 1
    /\ \E e \in Emails, pw \in Passwords :
          req' = [req EXCEPT ![p] = [kind |-> "login", name |-> "", email |-> e,
                                     password |-> pw, field_of_study |-> None]]
    /\ pc' = [pc EXCEPT ![p] = "login_lookup"]
    /\ UNCHANGED <<found, user_id, resp, exc, returned, origin>>
    /\ UNCHANGED <<storeVars, hashVars>>

\* the response has gone out; the worker takes the next request
Respond(p) ==
    /\ pc[p] = "done"
    /\ pc' = [pc EXCEPT ![p] = "idle"]
    /\ req' = [req EXCEPT ![p] = NoReq]
    /\ found' = [found EXCEPT ![p] = <<>>]
    /\ user_id' = [user_id EXCEPT ![p] = 0]
    /\ resp' = [resp EXCEPT ![p] = NoResp]
    /\ exc' = [exc EXCEPT ![p] = "none"]
    /\ UNCHANGED <<returned, origin, accepted, storeVars, hashVars>>

(* ------------------------------- signup ------------------------------- *)

DbMissing == HTTPException(500, "Database not available")
EmailAlreadyRegistered == HTTPException(400, "Email already registered")
CorruptCredential == HTTPException(500, "Stored password format invalid")
NoSuchUser_404 == HTTPException(404, "User not found")

\* login's answer when find_one returns None
NoSuchUser == HTTPException(401, "Invalid credentials")
\* login's answer when verify_password returns False
WrongPassword == HTTPException(401, "Invalid credentials")

\* "if existing:" / "if not user:": a document is truthy, None is not
truthy(doc) == doc # <<>>

signup_lookup_nocheck(p) ==
    /\ pc[p] = "signup_lookup"
    /\ IF ~dbAvail
       THEN /\ Finish(p, DbMissing, "HTTPException")
            /\ UNCHANGED found
       ELSE \/ /\ Finish(p, ServerError, "PyMongoError")
               /\ UNCHANGED found
            \/ /\ found' = [found EXCEPT ![p] = find_one(req[p].email)]
               /\ pc' = [pc EXCEPT ![p] = "signup_insert"]
               /\ UNCHANGED <<resp, exc>>
    /\ UNCHANGED <<req, user_id, returned, origin, accepted, storeVars, hashVars>>

\* signup, up to the existence check: db is None, find_one, "if existing"
signup_lookup(p) ==
    /\ pc[p] = "signup_lookup"
    /\ IF ~dbAvail
       THEN /\ Finish(p, DbMissing, "HTTPException")
            /\ UNCHANGED found
       ELSE \/ /\ Finish(p, ServerError, "PyMongoError")
               /\ UNCHANGED found
            \/ LET existing == find_one(req[p].email)
               IN  /\ found' = [found EXCEPT ![p] = existing]
                   /\ IF truthy(existing)
                      THEN Finish(p, EmailAlreadyRegistered, "HTTPException")
                      ELSE /\ pc' = [pc EXCEPT ![p] = "signup_insert"]
                           /\ UNCHANGED <<resp, exc>>
    /\ UNCHANGED <<req, user_id, returned, origin, accepted, storeVars, hashVars>>

\* signup: hash_password with a fresh salt, build user_doc, insert_one.
\* Nothing catches what insert_one raises.
signup_insert(p) ==
    /\ pc[p] = "signup_insert"
    /\ \E entropy \in Salts :
          LET hs == hash_password(req[p].password, None, entropy)
              user_doc == UserDoc(NextId, req[p].name, req[p].email,
                                  credential(hs[2], hs[1]), req[p].field_of_study)
          IN  \/ /\ Finish(p, ServerError, "PyMongoError")
                 /\ UNCHANGED <<users, origin, user_id>>
              \/ /\ DuplicateEmail(req[p].email)
                 /\ Finish(p, ServerError, "DuplicateKeyError")
                 /\ UNCHANGED <<users, origin, user_id>>
              \/ /\ ~DuplicateEmail(req[p].email)
                 /\ users' = Append(users, user_doc)
                 /\ origin' = Append(origin, req[p].password)
                 /\ user_id' = [user_id EXCEPT ![p] = user_doc._id]
                 /\ pc' = [pc EXCEPT ![p] = "signup_session"]
                 /\ UNCHANGED <<resp, exc>>
    /\ UNCHANGED <<req, found, returned, accepted, dbAvail, sessions, hashVars>>

signup_session_newid(p) ==
    /\ pc[p] = "signup_session"
    /\ \E token \in Tokens :
          \/ /\ Finish(p, ServerError, "PyMongoError")
             /\ UNCHANGED <<sessions, returned>>
          \/ /\ sessions' = Append(sessions, SessionDoc(str(NextId), token))
             /\ Finish(p, Success("Signup successful", token, user_id[p],
                                  req[p].name, req[p].email), "none")
             /\ returned' = returned \cup
                   {[email |-> req[p].email, password |-> req[p].password,
                     id |-> user_id[p]]}
    /\ UNCHANGED <<req, found, user_id, origin, accepted, dbAvail, users, hashVars>>

signup_session_rollback(p) ==
    /\ pc[p] = "signup_session"
    /\ LET others(doc) == doc._id # user_id[p]
           i == CHOOSE k \in 1..Len(users) : users[k]._id = user_id[p]
       IN  \E token \in Tokens :
              \/ /\ Finish(p, ServerError, "PyMongoError")
                 /\ users' = SelectSeq(users, others)
                 /\ origin' = [k \in 1..(Len(origin) - 1) |->
                                  IF k < i THEN origin[k] ELSE origin[k + 1]]
                 /\ UNCHANGED <<sessions, returned>>
              \/ /\ sessions' = Append(sessions, SessionDoc(str(user_id[p]), token))
                 /\ Finish(p, Success("Signup successful", token, user_id[p],
                                      req[p].name, req[p].email), "none")
                 /\ returned' = returned \cup
                       {[email |-> req[p].email, password |-> req[p].password,
                         id |-> user_id[p]]}
                 /\ UNCHANGED <<users, origin>>
    /\ UNCHANGED <<req, found, user_id, accepted, dbAvail, hashVars>>

signup_session_nopersist(p) ==
    /\ pc[p] = "signup_session"
    /\ \E token \in Tokens :
          \/ /\ Finish(p, ServerError, "PyMongoError")
             /\ UNCHANGED <<sessions, returned>>
          \/ /\ UNCHANGED sessions
             /\ Finish(p, Success("Signup successful", token, user_id[p],
                                  req[p].name, req[p].email), "none")
             /\ returned' = returned \cup
                   {[email |-> req[p].email, password |-> req[p].password,
                     id |-> user_id[p]]}
    /\ UNCHANGED <<req, found, user_id, origin, accepted, dbAvail, users, hashVars>>

\* signup: token_urlsafe, insert the session document, return the 200 body
signup_session(p) ==
    /\ pc[p] = "signup_session"
    /\ \E token \in Tokens :
          \/ /\ Finish(p, ServerError, "PyMongoError")
             /\ UNCHANGED <<sessions, returned>>
          \/ /\ sessions' = Append(sessions, SessionDoc(str(user_id[p]), token))
             /\ Finish(p, Success("Signup successful", token, user_id[p],
                                  req[p].name, req[p].email), "none")
             /\ returned' = returned \cup
                   {[email |-> req[p].email, password |-> req[p].password,
                     id |-> user_id[p]]}
    /\ UNCHANGED <<req, found, user_id, origin, accepted, dbAvail, users, hashVars>>

(* -------------------------------- login ------------------------------- *)

login_lookup_nodbcheck(p) ==
    /\ pc[p] = "login_lookup"
    /\ \/ /\ Finish(p, ServerError, "PyMongoError")
          /\ UNCHANGED found
       \/ LET user == find_one(req[p].email)
          IN  /\ found' = [found EXCEPT ![p] = user]
              /\ IF ~truthy(user)
                 THEN Finish(p, NoSuchUser, "HTTPException")
                 ELSE /\ pc' = [pc EXCEPT ![p] = "login_verify"]
                      /\ UNCHANGED <<resp, exc>>
    /\ UNCHANGED <<req, user_id, returned, origin, accepted, storeVars, hashVars>>

\* login, up to the existence check: db is None, find_one, "if not user"
login_lookup(p) ==
    /\ pc[p] = "login_lookup"
    /\ IF ~dbAvail
       THEN /\ Finish(p, DbMissing, "HTTPException")
            /\ UNCHANGED found
       ELSE \/ /\ Finish(p, ServerError, "PyMongoError")
               /\ UNCHANGED found
            \/ LET user == find_one(req[p].email)
               IN  /\ found' = [found EXCEPT ![p] = user]
                   /\ IF ~truthy(user)
                      THEN Finish(p, NoSuchUser, "HTTPException")
                      ELSE /\ pc' = [pc EXCEPT ![p] = "login_verify"]
                           /\ UNCHANGED <<resp, exc>>
    /\ UNCHANGED <<req, user_id, returned, origin, accepted, storeVars, hashVars>>

login_verify_rehash(p) ==
    /\ pc[p] = "login_verify"
    /\ LET user == found[p][1]
           parts == split(user.password_hash)
           i == CHOOSE k \in 1..Len(users) : users[k]._id = user._id
       IN  IF ~unpacks(user.password_hash)
           THEN /\ Finish(p, CorruptCredential, "HTTPException")
                /\ UNCHANGED <<sessions, users>>
           ELSE IF ~verify_password(req[p].password, parts[2], parts[1])
           THEN /\ Finish(p, WrongPassword, "HTTPException")
                /\ UNCHANGED <<sessions, users>>
           ELSE \E token \in Tokens, entropy \in Salts :
                   LET hs == hash_password(req[p].password, None, entropy)
                   IN  \/ /\ Finish(p, ServerError, "PyMongoError")
                          /\ UNCHANGED <<sessions, users>>
                       \/ /\ users' = [users EXCEPT
                                          ![i].password_hash = credential(hs[2], hs[1])]
                          /\ sessions' = Append(sessions,
                                                SessionDoc(str(user._id), token))
                          /\ Finish(p, Success("Login successful", token, user._id,
                                               user.name, user.email), "none")
    /\ UNCHANGED <<req, found, user_id, returned, origin, accepted, dbAvail, hashVars>>

login_verify_single(p) ==
    /\ pc[p] = "login_verify"
    /\ LET user == found[p][1]
           parts == split(user.password_hash)
           others(doc) == doc.user_id # str(user._id)
       IN  IF ~unpacks(user.password_hash)
           THEN /\ Finish(p, CorruptCredential, "HTTPException")
                /\ UNCHANGED sessions
           ELSE IF ~verify_password(req[p].password, parts[2], parts[1])
           THEN /\ Finish(p, WrongPassword, "HTTPException")
                /\ UNCHANGED sessions
           ELSE \E token \in Tokens :
                   \/ /\ Finish(p, ServerError, "PyMongoError")
                      /\ UNCHANGED sessions
                   \/ /\ sessions' = Append(SelectSeq(sessions, others),
                                            SessionDoc(str(user._id), token))
                      /\ Finish(p, Success("Login successful", token, user._id,
                                           user.name, user.email), "none")
    /\ UNCHANGED <<req, found, user_id, returned, origin, accepted, dbAvail, users, hashVars>>

\* login: split the stored field, verify_password, then token_urlsafe, insert
\* the session document and return the 200 body
login_verify(p) ==
    /\ pc[p] = "login_verify"
    /\ LET user == found[p][1]
           parts == split(user.password_hash)
       IN  IF ~unpacks(user.password_hash)
           THEN /\ Finish(p, CorruptCredential, "HTTPException")
                /\ UNCHANGED sessions
           ELSE IF ~verify_password(req[p].password, parts[2], parts[1])
           THEN /\ Finish(p, WrongPassword, "HTTPException")
                /\ UNCHANGED sessions
           ELSE \E token \in Tokens :
                   \/ /\ Finish(p, ServerError, "PyMongoError")
                      /\ UNCHANGED sessions
                   \/ /\ sessions' = Append(sessions, SessionDoc(str(user._id), token))
                      /\ Finish(p, Success("Login successful", token, user._id,
                                           user.name, user.email), "none")
    /\ UNCHANGED <<req, found, user_id, returned, origin, accepted, dbAvail, users, hashVars>>

(* --------------------------- specifications --------------------------- *)

Next ==
    \E p \in Procs :
        \/ SignupRequest(p)
        \/ signup_lookup(p)
        \/ signup_insert(p)
        \/ signup_session(p)
        \/ LoginRequest(p)
        \/ login_lookup(p)
        \/ login_verify(p)
        \/ Respond(p)

Spec == Init /\ [][Next]_vars

(* -------------------------- the hasher on its own --------------------- *)

\* the strings over Chars of length at most n
RECURSIVE Strings(_)
Strings(n) ==
    IF n = 0 THEN {<<>>}
    ELSE Strings(n - 1) \cup
         {Append(w, c) : w \in {v \in Strings(n - 1) : Len(v) = n - 1}, c \in Chars}

InitHash ==
    /\ dbAvail = TRUE
    /\ users = <<>>
    /\ origin = <<>>
    /\ sessions = <<>>
    /\ pc = [p \in Procs |-> "idle"]
    /\ req = [p \in Procs |-> NoReq]
    /\ found = [p \in Procs |-> <<>>]
    /\ user_id = [p \in Procs |-> 0]
    /\ resp = [p \in Procs |-> NoResp]
    /\ exc = [p \in Procs |-> "none"]
    /\ returned = {}
    /\ accepted = 0
    /\ hpass \in Strings(MaxLen)
    /\ hsalt \in Strings(MaxLen) \cup {None}
    /\ hout = <<>>
    /\ hok = <<>>

\* hashed, salt = hash_password(password, salt)
hash_call ==
    /\ hout = <<>>
    /\ \E entropy \in Salts : hout' = hash_password(hpass, hsalt, entropy)
    /\ UNCHANGED <<hpass, hsalt, hok>>
    /\ UNCHANGED <<dbAvail, users, sessions, pc, req, found, user_id, resp, exc,
                   returned, origin, accepted>>

\* verify_password(password, hashed, salt) on what hash_password returned
verify_call ==
    /\ hout # <<>>
    /\ hok = <<>>
    /\ hok' = <<verify_password(hpass, hout[1], hout[2])>>
    /\ UNCHANGED <<hpass, hsalt, hout>>
    /\ UNCHANGED <<dbAvail, users, sessions, pc, req, found, user_id, resp, exc,
                   returned, origin, accepted>>

NextHash == hash_call \/ verify_call

SpecHash == InitHash /\ [][NextHash]_vars

(* ------------------------------- claims ------------------------------- *)

\* some document of the user collection has this email
EmailPresent(email) == \E i \in 1..Len(users) : users[i].email = email

\* handler p takes a step from the place "at"
Steps(p, at) == pc[p] = at /\ pc'[p] # at

\* the step of p ended in a store call that raised
StoreRaised(p) == exc'[p] = "PyMongoError"

\* C1: in every reachable state, whatever signups and logins ran and however
\* their store calls interleaved, no two documents of the user collection
\* have the same email.
C1_EmailUnique ==
    \A i, j \in 1..Len(users) : users[i].email = users[j].email => i = j

\* two signups with one email both passed the lookup; one inserted its user
\* and the store refused the other's insert
C1_Witness ==
    \E p, q \in Procs :
        /\ p # q
        /\ req[p].kind = "signup" /\ req[q].kind = "signup"
        /\ req[p].email = req[q].email
        /\ user_id[p] # 0
        /\ pc[q] = "done" /\ exc[q] = "DuplicateKeyError"

\* C2: a signup whose email is in the user collection when its lookup runs
\* is answered 400 "Email already registered" by that very step, which leaves
\* both collections as they were; nothing of the request runs afterwards but
\* the sending of the response, which changes neither collection.
C2_DuplicateSignupRejected ==
    [][\A p \in Procs :
          /\ (/\ Steps(p, "signup_lookup")
              /\ dbAvail
              /\ ~StoreRaised(p)
              /\ EmailPresent(req[p].email))
             => /\ pc'[p] = "done"
                /\ resp'[p].status = 400
                /\ resp'[p].detail = "Email already registered"
                /\ resp'[p].token = ""
                /\ users' = users
                /\ sessions' = sessions
          /\ (/\ Steps(p, "done")
              /\ req[p].kind = "signup"
              /\ resp[p].status = 400)
             => /\ pc'[p] = "idle"
                /\ users' = users
                /\ sessions' = sessions]_vars

\* a signup found its email taken and was answered 400
C2_Witness ==
    \E p \in Procs :
        /\ pc[p] = "done"
        /\ req[p].kind = "signup"
        /\ found[p] # <<>>
        /\ found[p][1].email = req[p].email
        /\ resp[p].status = 400

\* the collection "after" is "before" with exactly one document added at the end
OneAdded(before, after) ==
    /\ Len(after) = Len(before) + 1
    /\ SubSeq(after, 1, Len(before)) = before

\* C3: a signup whose email is not in the user collection when its insert
\* runs, and whose store calls do not raise, succeeds: its insert adds exactly
\* one user document (with that email), its session step adds exactly one
\* session document and answers 200, and the token of the response is the
\* token of that session document, whose user_id is the string identity of
\* the user document just created, the id of the response's user projection.
\* No other step of the request changes a collection.
C3_FreshSignupSucceeds ==
    [][\A p \in Procs :
          /\ (Steps(p, "signup_lookup") \/ (Steps(p, "done") /\ req[p].kind = "signup"))
             => users' = users /\ sessions' = sessions
          /\ (/\ Steps(p, "signup_insert")
              /\ ~StoreRaised(p)
              /\ ~EmailPresent(req[p].email))
             => /\ pc'[p] = "signup_session"
                /\ OneAdded(users, users')
                /\ users'[Len(users')].email = req[p].email
                /\ users'[Len(users')]._id = user_id'[p]
                /\ \A i \in 1..Len(users) : users[i]._id # user_id'[p]
                /\ sessions' = sessions
          /\ (Steps(p, "signup_session") /\ ~StoreRaised(p))
             => /\ pc'[p] = "done"
                /\ resp'[p].status = 200
                /\ users' = users
                /\ OneAdded(sessions, sessions')
                /\ sessions'[Len(sessions')].token = resp'[p].token
                /\ sessions'[Len(sessions')].user_id = str(user_id[p])
                /\ resp'[p].user.id = str(user_id[p])
                /\ resp'[p].user.email = req[p].email
                /\ \E i \in 1..Len(users) :
                      users[i]._id = user_id[p] /\ users[i].email = req[p].email]_vars

\* a signup was answered 200 and the session with its token points at its user
C3_Witness ==
    \E p \in Procs :
        /\ pc[p] = "done"
        /\ req[p].kind = "signup"
        /\ resp[p].status = 200
        /\ \E k \in 1..Len(sessions) :
              /\ sessions[k].token = resp[p].token
              /\ sessions[k].user_id = resp[p].user.id
        /\ \E i \in 1..Len(users) :
              users[i]._id = user_id[p] /\ users[i].email = req[p].email

\* C4: once signup(email, password) has returned 200, every login with that
\* email and that password whose store calls do not raise finds that user and
\* is answered 200 with a token whose session document carries that user's
\* id, whatever other signups and logins ran in between.
C4_LoginAfterSignup ==
    [][\A p \in Procs : \A r \in returned :
          (/\ req[p].kind = "login"
           /\ req[p].email = r.email
           /\ req[p].password = r.password)
          => /\ (Steps(p, "login_lookup") /\ ~StoreRaised(p))
                => /\ pc'[p] = "login_verify"
                   /\ found'[p] # <<>>
                   /\ found'[p][1]._id = r.id
             /\ (Steps(p, "login_verify") /\ ~StoreRaised(p))
                => /\ pc'[p] = "done"
                   /\ resp'[p].status = 200
                   /\ resp'[p].user.id = str(r.id)
                   /\ resp'[p].user.email = r.email
                   /\ OneAdded(sessions, sessions')
                   /\ sessions'[Len(sessions')].token = resp'[p].token
                   /\ sessions'[Len(sessions')].user_id = str(r.id)]_vars

\* a login with the email and password of a signup that returned 200 was
\* itself answered 200
C4_Witness ==
    \E p \in Procs : \E r \in returned :
        /\ pc[p] = "done"
        /\ req[p].kind = "login"
        /\ req[p].email = r.email
        /\ req[p].password = r.password
        /\ resp[p].status = 200
        /\ resp[p].user.id = str(r.id)

\* the password the stored field of this user document was made from
OriginOf(doc) ==
    origin[CHOOSE i \in 1..Len(users) : users[i]._id = doc._id]

\* C5: a login that found a user document written by signup and submits a
\* password other than the one that document's stored field was made from is
\* answered 401 "Invalid credentials", and its steps leave the user and
\* session collections as they were.
C5_WrongPasswordRejected ==
    [][\A p \in Procs :
          /\ (Steps(p, "login_lookup") \/ (Steps(p, "done") /\ req[p].kind = "login"))
             => users' = users /\ sessions' = sessions
          /\ (/\ Steps(p, "login_verify")
              /\ OriginOf(found[p][1]) # None
              /\ OriginOf(found[p][1]) # req[p].password)
             => /\ pc'[p] = "done"
                /\ resp'[p].status = 401
                /\ resp'[p].detail = "Invalid credentials"
                /\ resp'[p].token = ""
                /\ users' = users
                /\ sessions' = sessions]_vars

\* a login with a wrong password for a user written by signup was answered 401
C5_Witness ==
    \E p \in Procs :
        /\ pc[p] = "done"
        /\ req[p].kind = "login"
        /\ found[p] # <<>>
        /\ OriginOf(found[p][1]) # None
        /\ OriginOf(found[p][1]) # req[p].password
        /\ resp[p].status = 401

\* C6: a login whose email has no user document when its lookup runs is
\* answered 401 "Invalid credentials" by that step, which changes neither
\* collection; and that response equals, field by field, the response of a
\* login that found a user written by signup and submitted a wrong password.
C6_NoSuchUserLooksLikeWrongPassword ==
    [][/\ \A p \in Procs :
             (/\ Steps(p, "login_lookup")
              /\ dbAvail
              /\ ~StoreRaised(p)
              /\ ~EmailPresent(req[p].email))
             => /\ pc'[p] = "done"
                /\ resp'[p].status = 401
                /\ resp'[p].detail = "Invalid credentials"
                /\ resp'[p].token = ""
                /\ users' = users
                /\ sessions' = sessions
       /\ \A p, q \in Procs :
             (/\ pc[p] = "done" /\ req[p].kind = "login"
              /\ dbAvail /\ exc[p] # "PyMongoError" /\ found[p] = <<>>
              /\ pc[q] = "done" /\ req[q].kind = "login"
              /\ found[q] # <<>>
              /\ OriginOf(found[q][1]) # None
              /\ OriginOf(found[q][1]) # req[q].password)
             => resp[p] = resp[q]]_vars

\* one login for an email nobody has and one login with a wrong password for a
\* user written by signup have both been answered
C6_Witness ==
    \E p, q \in Procs :
        /\ pc[p] = "done" /\ req[p].kind = "login"
        /\ dbAvail /\ exc[p] # "PyMongoError" /\ found[p] = <<>>
        /\ pc[q] = "done" /\ req[q].kind = "login"
        /\ found[q] # <<>>
        /\ OriginOf(found[q][1]) # None
        /\ OriginOf(found[q][1]) # req[q].password
        /\ resp[p].status = 401

\* C7: whatever the password and whatever the salt argument, verify_password
\* accepts the password against the hash and the salt that hash_password
\* returned; the returned salt is the supplied one, or, when none was
\* supplied, the freshly generated one.
C7_VerifyAcceptsOwnHash ==
    hok # <<>> =>
        /\ hok[1] = TRUE
        /\ Len(hout) = 2
        /\ IF hsalt = None THEN hout[2] \in Salts ELSE hout[2] = hsalt

\* verify_password has run on the hash of a non-empty password under a
\* supplied non-empty salt
C7_Witness ==
    /\ hok # <<>>
    /\ hsalt # None
    /\ Len(hsalt) > 0
    /\ Len(hpass) > 0
    /\ hpass # hsalt

\* C8: of two signups with one email that both passed the lookup before
\* either inserted, the one whose insert the store refuses as a duplicate is
\* answered 400 "Email already registered" and has created no user document.
C8_RaceLoserRejected ==
    \A p \in Procs :
        (/\ pc[p] = "done"
         /\ req[p].kind = "signup"
         /\ exc[p] = "DuplicateKeyError")
        => /\ resp[p].status = 400
           /\ resp[p].detail = "Email already registered"
           /\ user_id[p] = 0

\* exactly one ":" stands in the stored field
WellFormed(stored) == Cardinality({i \in 1..Len(stored) : stored[i] = ":"}) = 1

\* C9: a login that found a user whose stored password field does not split
\* on ":" into exactly two parts is answered 500 "Stored password format
\* invalid", whatever password it submitted, and creates no session document.
C9_CorruptCredential ==
    [][\A p \in Procs :
          (/\ Steps(p, "login_verify")
           /\ ~WellFormed(found[p][1].password_hash))
          => /\ pc'[p] = "done"
             /\ resp'[p].status = 500
             /\ resp'[p].detail = "Stored password format invalid"
             /\ resp'[p].token = ""
             /\ users' = users
             /\ sessions' = sessions]_vars

\* logins for the user with the malformed field were answered 500, one for
\* each of two different passwords
C9_Witness ==
    \E p, q \in Procs :
        /\ pc[p] = "done" /\ pc[q] = "done"
        /\ req[p].kind = "login" /\ req[q].kind = "login"
        /\ req[p].password # req[q].password
        /\ found[p] # <<>> /\ found[q] # <<>>
        /\ ~WellFormed(found[p][1].password_hash)
        /\ ~WellFormed(found[q][1].password_hash)
        /\ Len(split(found[p][1].password_hash)) > 2
        /\ resp[p].status = 500 /\ resp[q].status = 500

\* no two documents of the session collection have the same token
TokensUnique(coll) ==
    \A i, j \in 1..Len(coll) : coll[i].token = coll[j].token => i = j

\* C10 as stated: in every reachable state no two session documents have the
\* same token.
C10_TokensUnique == TokensUnique(sessions)

\* C10, amended: no uniqueness check is made, so two session documents have
\* the same token only when token_urlsafe returned a value that is already a
\* stored token. Every signup or login answered 200 adds one session document
\* holding exactly the token it returns and leaves the others as they were,
\* no other step changes the session collection, and so the tokens stay
\* pairwise different whenever the returned token is not yet stored.
C10_TokensUniqueUnlessDrawRepeats ==
    [][/\ \A p \in Procs :
             (/\ Steps(p, "signup_session") \/ Steps(p, "login_verify")
              /\ resp'[p].status = 200)
             => /\ OneAdded(sessions, sessions')
                /\ sessions'[Len(sessions')].token = resp'[p].token
                /\ resp'[p].token \in Tokens
                /\ (/\ TokensUnique(sessions)
                    /\ \A k \in 1..Len(sessions) : sessions[k].token # resp'[p].token)
                   => TokensUnique(sessions')
       /\ sessions' # sessions
          => \E p \in Procs :
                /\ Steps(p, "signup_session") \/ Steps(p, "login_verify")
                /\ resp'[p].status = 200]_vars

\* a login was answered 200 with a token that no other session document holds,
\* after a signup had stored another token
C10_Witness ==
    \E p \in Procs :
        /\ pc[p] = "done"
        /\ req[p].kind = "login"
        /\ resp[p].status = 200
        /\ Len(sessions) >= 2
        /\ TokensUnique(sessions)
        /\ \E k \in 1..Len(sessions) : sessions[k].token = resp[p].token

\* how many session documents carry this user id
SessionsOf(coll, uid) == Cardinality({k \in 1..Len(coll) : coll[k].user_id = uid})

\* C11: every signup or login answered 200 adds exactly one session document
\* and leaves the earlier ones in place; no step of any request removes or
\* alters a session document. The session count of a user whose signup
\* returned 200 is at least one, goes up by exactly one with each of that
\* user's logins answered 200 and is changed by nothing else: after n such
\* logins it is n + 1.
C11_SessionsOnlyGrow ==
    [][/\ sessions' = sessions \/ OneAdded(sessions, sessions')
       /\ \A p \in Procs :
             (/\ Steps(p, "signup_session") \/ Steps(p, "login_verify")
              /\ resp'[p].status = 200)
             => OneAdded(sessions, sessions')
       /\ \A r \in returned :
             /\ SessionsOf(sessions, str(r.id)) >= 1
             /\ SessionsOf(sessions', str(r.id)) =
                   SessionsOf(sessions, str(r.id)) +
                   Cardinality({p \in Procs :
                                   /\ Steps(p, "login_verify")
                                   /\ resp'[p].status = 200
                                   /\ resp'[p].user.id = str(r.id)})]_vars

\* a user signed up and then logged in twice: three session documents are hers
C11_Witness ==
    \E r \in returned :
        /\ SessionsOf(sessions, str(r.id)) = 3
        /\ Len(sessions) = 3
        /\ \E p \in Procs :
              /\ pc[p] = "done"
              /\ req[p].kind = "login"
              /\ resp[p].status = 200
              /\ resp[p].user.id = str(r.id)

\* C12: no step of a signup or a login alters or removes a user document.
\* The steps of a login, whatever its answer, leave the user collection as it
\* was; of the steps of a signup only the insert changes it, by adding one
\* document at most once per request; so the collection only grows and every
\* document stays as signup wrote it.
C12_UsersOnlyGrow ==
    [][/\ users' = users \/ OneAdded(users, users')
       /\ \A i \in 1..Len(users) : users'[i] = users[i]
       /\ \A p \in Procs :
             (req[p].kind = "login" /\ pc'[p] # pc[p]) => users' = users
       /\ users' # users
          => \E p \in Procs :
                /\ Steps(p, "signup_insert")
                /\ req[p].kind = "signup"
                /\ user_id[p] = 0
                /\ user_id'[p] = users'[Len(users')]._id]_vars

\* two signups have written their documents and a login for the first one was
\* answered 200
C12_Witness ==
    \E p \in Procs :
        /\ pc[p] = "done"
        /\ req[p].kind = "login"
        /\ resp[p].status = 200
        /\ Len(users) = 2
        /\ origin[1] # None /\ origin[2] # None
        /\ resp[p].user.id = str(users[1]._id)

\* no session document carries this user id
NoSessionFor(oid) == \A k \in 1..Len(sessions) : sessions[k].user_id # str(oid)

C14_StoreUnavailable ==
    [][~dbAvail =>
          /\ users' = users
          /\ sessions' = sessions
          /\ \A p \in Procs :
                (Steps(p, "signup_lookup") \/ Steps(p, "login_lookup"))
                => /\ pc'[p] = "done"
                   /\ resp'[p].status = 500
                   /\ resp'[p].detail = "Database not available"
                   /\ resp'[p].token = ""
                   /\ found'[p] = <<>>
                   /\ user_id'[p] = 0]_vars

\* with the handle None, a signup and a login for the email of a stored user
\* have both been answered 500
C14_Witness ==
    /\ ~dbAvail
    /\ \E p, q \in Procs :
          /\ pc[p] = "done" /\ req[p].kind = "signup" /\ resp[p].status = 500
          /\ pc[q] = "done" /\ req[q].kind = "login" /\ resp[q].status = 500
          /\ EmailPresent(req[p].email)
          /\ EmailPresent(req[q].email)

\* the characters of a hex string
HexChars == {"0", "1", "2", "3", "4", "5", "6", "7", "8", "9",
             "a", "b", "c", "d", "e", "f"}

IsHex(w) == \A i \in 1..Len(w) : w[i] \in HexChars

\* C15: the stored password field of every user document written by signup
\* is "<salt>:<hash>": it holds exactly one ":", splits into exactly two hex
\* strings, the first a salt token_hex returned and the second the digest of
\* that salt followed by the password of the signup. So no login that found
\* such a user is answered 500 "Stored password format invalid".
C15_CredentialFormat ==
    /\ \A i \in 1..Len(users) :
          origin[i] # None =>
             LET stored == users[i].password_hash
                 colon == CHOOSE k \in 1..Len(stored) : stored[k] = ":"
                 salt == SubSeq(stored, 1, colon - 1)
                 hash == SubSeq(stored, colon + 1, Len(stored))
             IN  /\ Cardinality({k \in 1..Len(stored) : stored[k] = ":"}) = 1
                 /\ split(stored) = <<salt, hash>>
                 /\ salt \in Salts
                 /\ IsHex(salt) /\ IsHex(hash)
                 /\ hash = sha256_hexdigest(salt \o origin[i])
    /\ \A p \in Procs :
          (/\ pc[p] = "done"
           /\ req[p].kind = "login"
           /\ found[p] # <<>>
           /\ OriginOf(found[p][1]) # None)
          => /\ resp[p].detail # "Stored password format invalid"
             /\ exc[p] = "PyMongoError" \/ resp[p].status \in {200, 401}

\* logins for a user written by signup have been answered, one 200 and one
\* 401
C15_Witness ==
    \E p, q \in Procs :
        /\ pc[p] = "done" /\ pc[q] = "done"
        /\ req[p].kind = "login" /\ req[q].kind = "login"
        /\ found[p] # <<>> /\ found[q] # <<>>
        /\ OriginOf(found[p][1]) # None
        /\ OriginOf(found[q][1]) # None
        /\ resp[p].status = 200
        /\ resp[q].status = 401

\* C16: in every reachable state the user_id of every session document is
\* the string identity of a document of the user collection.
C16_SessionsPointAtUsers ==
    \A k \in 1..Len(sessions) :
        \E i \in 1..Len(users) : sessions[k].user_id = str(users[i]._id)

\* the session documents written by two signups and a login point at the two
\* users of the collection
C16_Witness ==
    /\ Len(users) = 2
    /\ Len(sessions) = 3
    /\ \E k, l \in 1..Len(sessions) : sessions[k].user_id # sessions[l].user_id
    /\ \E p \in Procs :
          /\ pc[p] = "done"
          /\ req[p].kind = "login"
          /\ resp[p].status = 200

====
